---- MODULE Spec2Model ----
(***************************************************************************)
(* Model of the Slack tool server of src/main.py: the config file, the     *)
(* module-level client handle, the directory syncs, the name resolver and  *)
(* the five tool operations.                                               *)
(*                                                                         *)
(* A Python string is a sequence of atoms (TLA+ strings).  A letter that   *)
(* str.lower() may change is an atom of its own; a fixed phrase of the     *)
(* program, an identifier issued by the platform or an error code is one   *)
(* atom.  Concatenation is \o.                                             *)
(***************************************************************************)
EXTENDS Integers, Sequences, FiniteSets, TLC

VARIABLES
    file,     \* content of config.yaml (config_path)
    client,   \* the module-level client handle: None or the token it holds
    last,     \* the last operation: its arguments, remote calls and result
    runs      \* the sync runs of two server processes that share the file

vars == <<file, client, last, runs>>

(***************************************************************************)
(* Bounds of the model.                                                    *)
(***************************************************************************)
MaxNames == 2      \* longest list of recipient / mention names
NumBigConvs == 6   \* direct conversations of the large history scenario

(***************************************************************************)
(* Strings.                                                                *)
(***************************************************************************)
UpperAlpha ==
    <<"A","B","C","D","E","F","G","H","I","J","K","L","M",
      "N","O","P","Q","R","S","T","U","V","W","X","Y","Z">>

LowerAlpha ==
    <<"a","b","c","d","e","f","g","h","i","j","k","l","m",
      "n","o","p","q","r","s","t","u","v","w","x","y","z">>

LowerChar(c) ==
    IF \E i \in 1..Len(UpperAlpha) : UpperAlpha[i] = c
    THEN LowerAlpha[CHOOSE i \in 1..Len(UpperAlpha) : UpperAlpha[i] = c]
    ELSE c

\* str.lower()
Lower(s) == [i \in 1..Len(s) |-> LowerChar(s[i])]

RECURSIVE Join(_, _)
\* sep.join(parts), built by halves
Join(parts, sep) ==
    IF Len(parts) = 0 THEN <<>>
    ELSE IF Len(parts) = 1 THEN parts[1]
    ELSE LET half == Len(parts) \div 2
         IN  Join(SubSeq(parts, 1, half), sep) \o sep
             \o Join(SubSeq(parts, half + 1, Len(parts)), sep)

\* Python's None, where a string is expected
None == <<"None">>

Min(S) == CHOOSE x \in S : \A y \in S : x <= y

(***************************************************************************)
(* The config file: a record of the YAML document's top-level keys.  The   *)
(* users and channels mappings keep their insertion order (a Python dict,  *)
(* dumped with sort_keys=False): a sequence of [k, v] with distinct k.     *)
(***************************************************************************)
NoFile ==
    [exists |-> FALSE, has_token |-> FALSE, user_token |-> <<>>,
     has_users |-> FALSE, users |-> <<>>,
     has_channels |-> FALSE, channels |-> <<>>]

\* initial_config of slack_setup
initial_config(user_token) ==
    [exists |-> TRUE, has_token |-> TRUE, user_token |-> user_token,
     has_users |-> TRUE, users |-> <<>>,
     has_channels |-> TRUE, channels |-> <<>>]

HasKey(m, k) == \E i \in 1..Len(m) : m[i].k = k

Lookup(m, k) == m[CHOOSE i \in 1..Len(m) : m[i].k = k].v

\* str(e) of the exceptions the file operations raise
ENOENT == <<"[Errno 2] No such file or directory: 'config.yaml'">>
EACCES == <<"[Errno 13] Permission denied: 'config.yaml'">>

(***************************************************************************)
(* Remote calls.  A call ends in one of three ways: the platform answers   *)
(* ok, it answers with a failure flag and an error code, or the transport  *)
(* raises.                                                                 *)
(***************************************************************************)
Ok == [kind |-> "ok", error |-> ""]
Rejected(code) == [kind |-> "rejected", error |-> code]
Raised(msg) == [kind |-> "raised", error |-> msg]

Outcomes == {Ok, Rejected("invalid_auth"), Raised("timed out")}

Call(api, args, outcome) == [api |-> api, args |-> args, outcome |-> outcome]

NoArgs == [none |-> TRUE]

NotConfigured ==
    <<"Slack not configured. Please ask me to setup slack and provide your user token.">>

(***************************************************************************)
(* Name resolver.                                                          *)
(***************************************************************************)
\* The condition of the resolver's loop on one record
Matches(user_data, name_lower) ==
    \/ Lower(user_data.username) = name_lower
    \/ Lower(user_data.display_name) = name_lower
    \/ Lower(user_data.real_name) = name_lower
    \/ Lower(user_data.first_name) = name_lower

\* A mutant of the resolver: the query is compared as typed.
get_slack_user_case_sensitive(f, name) ==
    IF ~f.exists \/ ~f.has_users THEN None
    ELSE LET hits == {i \in 1..Len(f.users) : Matches(f.users[i].v, name)}
         IN  IF hits = {} THEN None ELSE f.users[Min(hits)].v.id

\* _get_slack_user: the ID of the first record one of whose names equals the
\* query, both lower-cased; None when there is none or the file cannot be read.
get_slack_user(f, name) ==
    IF ~f.exists \/ ~f.has_users THEN None
    ELSE LET name_lower == Lower(name)
             hits == {i \in 1..Len(f.users) : Matches(f.users[i].v, name_lower)}
         IN  IF hits = {} THEN None ELSE f.users[Min(hits)].v.id

(***************************************************************************)
(* Directory sync.                                                         *)
(***************************************************************************)
\* user_data built from one member of users_list
user_data_of(user) ==
    [id |-> user.id, username |-> user.name,
     display_name |-> user.display_name, real_name |-> user.real_name,
     first_name |-> user.first_name]

\* A mutant of the user merge: a key already present is overwritten.
RECURSIVE merge_users_overwriting(_, _)
merge_users_overwriting(users, members) ==
    IF members = <<>> THEN [users |-> users, added |-> 0]
    ELSE LET user == Head(members)
             key == Lower(user.name)
             keep == ~user.is_bot /\ ~user.deleted
             entry == [k |-> key, v |-> user_data_of(user)]
             next == IF ~keep THEN users
                     ELSE IF HasKey(users, key)
                     THEN [i \in 1..Len(users) |->
                              IF users[i].k = key THEN entry ELSE users[i]]
                     ELSE Append(users, entry)
             rest == merge_users_overwriting(next, Tail(members))
         IN  [users |-> rest.users,
              added |-> rest.added + (IF keep THEN 1 ELSE 0)]

RECURSIVE merge_users(_, _)
\* The loop of _get_user_ids over response["members"]
merge_users(users, members) ==
    IF members = <<>> THEN [users |-> users, added |-> 0]
    ELSE LET user == Head(members)
             key == Lower(user.name)
             keep == ~user.is_bot /\ ~user.deleted /\ ~HasKey(users, key)
             next == IF keep
                     THEN Append(users, [k |-> key, v |-> user_data_of(user)])
                     ELSE users
             rest == merge_users(next, Tail(members))
         IN  [users |-> rest.users,
              added |-> rest.added + (IF keep THEN 1 ELSE 0)]

RECURSIVE merge_channels(_, _)
\* The loop of _get_channel_ids over response["channels"]
merge_channels(channels, listing) ==
    IF listing = <<>> THEN [channels |-> channels, added |-> 0]
    ELSE LET channel == Head(listing)
             key == Lower(channel.name)
             keep == ~channel.is_archived /\ channel.is_member
                     /\ ~HasKey(channels, key)
             next == IF keep
                     THEN Append(channels, [k |-> key, v |-> channel.id])
                     ELSE channels
             rest == merge_channels(next, Tail(listing))
         IN  [channels |-> rest.channels,
              added |-> rest.added + (IF keep THEN 1 ELSE 0)]

\* _get_user_ids.  resp is the answer of users_list: [outcome, members];
\* io = "sync_write_fails" makes the write of the file raise.
get_user_ids(f, c, resp, io) ==
    IF c = None
    THEN [file |-> f, calls |-> <<>>,
          result |-> <<"Error: Slack client not initialized">>]
    ELSE IF ~f.exists
    THEN [file |-> f, calls |-> <<>>, result |-> <<"Error: ">> \o ENOENT]
    ELSE LET call == Call("users_list", NoArgs, resp.outcome)
             m == merge_users(IF f.has_users THEN f.users ELSE <<>>,
                              resp.members)
             g == [f EXCEPT !.has_users = TRUE, !.users = m.users]
         IN  IF resp.outcome.kind # "ok"
             THEN [file |-> f, calls |-> <<call>>,
                   result |-> <<"Error: ", resp.outcome.error>>]
             ELSE IF m.added > 0 /\ io = "sync_write_fails"
             THEN [file |-> f, calls |-> <<call>>,
                   result |-> <<"Error: ">> \o EACCES]
             ELSE [file |-> IF m.added > 0 THEN g ELSE f, calls |-> <<call>>,
                   result |-> <<"Config updated! Added ", ToString(m.added)>>]

\* _get_channel_ids.  resp is the answer of conversations_list.
get_channel_ids(f, c, resp, io) ==
    IF c = None
    THEN [file |-> f, calls |-> <<>>,
          result |-> <<"Error: Slack client not initialized">>]
    ELSE IF ~f.exists
    THEN [file |-> f, calls |-> <<>>, result |-> <<"Error: ">> \o ENOENT]
    ELSE LET call == Call("conversations_list", NoArgs, resp.outcome)
             m == merge_channels(IF f.has_channels THEN f.channels ELSE <<>>,
                                 resp.channels)
             g == [f EXCEPT !.has_channels = TRUE, !.channels = m.channels]
         IN  IF resp.outcome.kind # "ok"
             THEN [file |-> f, calls |-> <<call>>,
                   result |-> <<"Error: ", resp.outcome.error>>]
             ELSE IF m.added > 0 /\ io = "sync_write_fails"
             THEN [file |-> f, calls |-> <<call>>,
                   result |-> <<"Error: ">> \o EACCES]
             ELSE [file |-> IF m.added > 0 THEN g ELSE f, calls |-> <<call>>,
                   result |-> <<"Config updated! Added ", ToString(m.added)>>]

(***************************************************************************)
(* slack_setup.  io = "setup_write_fails" makes the first write raise.     *)
(***************************************************************************)
\* A mutant of slack_setup: the client is rebuilt before the file is written.
slack_setup_client_first(f, c, user_token, io, uresp, cresp) ==
    IF io = "setup_write_fails"
    THEN [file |-> f, client |-> user_token, calls |-> <<>>,
          result |-> <<"Error during setup: ">> \o EACCES]
    ELSE LET u == get_user_ids(initial_config(user_token), user_token, uresp, io)
             ch == get_channel_ids(u.file, user_token, cresp, io)
         IN  [file |-> ch.file, client |-> user_token,
              calls |-> u.calls \o ch.calls,
              result |-> <<"Slack setup completed successfully! ">>
                         \o u.result \o <<". ">> \o ch.result \o <<".">>]

slack_setup(f, c, user_token, io, uresp, cresp) ==
    IF io = "setup_write_fails"
    THEN [file |-> f, client |-> c, calls |-> <<>>,
          result |-> <<"Error during setup: ">> \o EACCES]
    ELSE LET u == get_user_ids(initial_config(user_token), user_token, uresp, io)
             ch == get_channel_ids(u.file, user_token, cresp, io)
         IN  [file |-> ch.file, client |-> user_token,
              calls |-> u.calls \o ch.calls,
              result |-> <<"Slack setup completed successfully! ">>
                         \o u.result \o <<". ">> \o ch.result \o <<".">>]

(***************************************************************************)
(* Message dispatcher.                                                     *)
(***************************************************************************)
\* response["channel"]["id"] of an accepted conversations_open
GroupChannelOf(user_ids) == <<"G">> \o Join(user_ids, <<"+">>)

\* A mutant of send_message_to_user: each recipient is messaged as soon as it
\* resolves, so recipients before an unresolved name have been sent to.
send_message_to_user_eager(f, c, user_names, message, o1, o2) ==
    LET ids == [i \in 1..Len(user_names) |-> get_slack_user(f, user_names[i])]
        bad == {i \in 1..Len(user_names) : ids[i] = None}
        upto == IF bad = {} THEN Len(user_names) ELSE Min(bad) - 1
        posts == [i \in 1..upto |->
                    Call("chat_postMessage",
                         [channel |-> ids[i], text |-> message], o1)]
    IN  IF c = None THEN [calls |-> <<>>, result |-> NotConfigured]
        ELSE IF bad # {}
        THEN [calls |-> posts,
              result |-> <<"Error: User '">> \o user_names[Min(bad)]
                         \o <<"' not found in config">>]
        ELSE [calls |-> posts,
              result |-> <<"Direct message sent successfully to ">>
                         \o Join(user_names, <<", ">>) \o <<"!">>]

\* A mutant of send_message_to_user: the message is posted into the group
\* whatever the answer to conversations_open was, and a failed post is
\* repeated once.
send_message_to_user_unordered(f, c, user_names, message, o1, o2) ==
    LET user_ids == [i \in 1..Len(user_names) |->
                        get_slack_user(f, user_names[i])]
        bad == {i \in 1..Len(user_names) : user_ids[i] = None}
        dm == Call("chat_postMessage",
                   [channel |-> user_ids[1], text |-> message], o1)
        open == Call("conversations_open", [users |-> user_ids], o1)
        post == Call("chat_postMessage",
                     [channel |-> GroupChannelOf(user_ids), text |-> message],
                     o2)
    IN  IF c = None THEN [calls |-> <<>>, result |-> NotConfigured]
        ELSE IF Len(user_names) = 0
        THEN [calls |-> <<>>,
              result |-> <<"Error: At least one user name must be provided">>]
        ELSE IF bad # {}
        THEN [calls |-> <<>>,
              result |-> <<"Error: User '">> \o user_names[Min(bad)]
                         \o <<"' not found in config">>]
        ELSE IF Len(user_ids) = 1
        THEN [calls |-> <<dm>>,
              result |-> IF o1.kind = "ok"
                         THEN <<"Direct message sent successfully to ">>
                              \o user_names[1] \o <<"!">>
                         ELSE <<"Error: ", o1.error>>]
        ELSE [calls |-> IF o2.kind = "ok" THEN <<open, post>>
                        ELSE <<open, post, post>>,
              result |-> IF o2.kind = "ok"
                         THEN <<"Group message sent successfully to ">>
                              \o Join(user_names, <<", ">>) \o <<"!">>
                         ELSE <<"Error: ", o2.error>>]

\* send_message_to_user.  o1 and o2 are the outcomes of the first and of the
\* second remote call, should the call make them.
send_message_to_user(f, c, user_names, message, o1, o2) ==
    LET user_ids == [i \in 1..Len(user_names) |->
                        get_slack_user(f, user_names[i])]
        bad == {i \in 1..Len(user_names) : user_ids[i] = None}
        dm == Call("chat_postMessage",
                   [channel |-> user_ids[1], text |-> message], o1)
        open == Call("conversations_open", [users |-> user_ids], o1)
        group_channel_id == GroupChannelOf(user_ids)
        post == Call("chat_postMessage",
                     [channel |-> group_channel_id, text |-> message], o2)
    IN  IF c = None THEN [calls |-> <<>>, result |-> NotConfigured]
        ELSE IF Len(user_names) = 0
        THEN [calls |-> <<>>,
              result |-> <<"Error: At least one user name must be provided">>]
        ELSE IF bad # {}
        THEN [calls |-> <<>>,
              result |-> <<"Error: User '">> \o user_names[Min(bad)]
                         \o <<"' not found in config">>]
        ELSE IF Len(user_ids) = 1
        THEN [calls |-> <<dm>>,
              result |-> IF o1.kind = "ok"
                         THEN <<"Direct message sent successfully to ">>
                              \o user_names[1] \o <<"!">>
                         ELSE <<"Error: ", o1.error>>]
        ELSE IF o1.kind = "rejected"
        THEN [calls |-> <<open>>,
              result |-> <<"Error creating group conversation: ", o1.error>>]
        ELSE IF o1.kind = "raised"
        THEN [calls |-> <<open>>, result |-> <<"Error: ", o1.error>>]
        ELSE [calls |-> <<open, post>>,
              result |-> IF o2.kind = "ok"
                         THEN <<"Group message sent successfully to ">>
                              \o Join(user_names, <<", ">>) \o <<"!">>
                         ELSE <<"Error: ", o2.error>>]

\* f"<@{user_id}>"
Mention(user_id) == <<"<@">> \o user_id \o <<">">>

\* send_message_to_channel from the lookup of the channel on; name is the
\* key the channel is looked up under.  o1 is the outcome of chat_postMessage.
post_to_channel(f, name, message, users, o1) ==
    LET ids == [i \in 1..Len(users) |-> get_slack_user(f, users[i])]
        bad == {i \in 1..Len(users) : ids[i] = None \/ ids[i] = <<>>}
        mentions == [i \in 1..Len(users) |-> Mention(ids[i])]
        final_message == IF mentions # <<>>
                         THEN Join(mentions, <<" ">>) \o <<" ">> \o message
                         ELSE message
        mentioned_users_str ==
            IF users # <<>>
            THEN <<" (mentioning ">> \o Join(users, <<", ">>) \o <<")">>
            ELSE <<>>
    IN  IF ~f.exists
        THEN [calls |-> <<>>, result |-> <<"Error: ">> \o ENOENT]
        ELSE IF ~f.has_channels
        THEN [calls |-> <<>>, result |-> <<"Error: ", "'channels'">>]
        ELSE IF ~HasKey(f.channels, name)
        THEN [calls |-> <<>>,
              result |-> <<"Error: Channel '">> \o name
                         \o <<"' not found in config">>]
        ELSE IF bad # {}
        THEN [calls |-> <<>>,
              result |-> <<"Error: User '">> \o users[Min(bad)]
                         \o <<"' not found in config">>]
        ELSE [calls |-> <<Call("chat_postMessage",
                               [channel |-> Lookup(f.channels, name),
                                text |-> final_message], o1)>>,
              result |-> IF o1.kind = "ok"
                         THEN <<"Message sent successfully to #">> \o name
                              \o <<"!">> \o mentioned_users_str
                         ELSE <<"Error: ", o1.error>>]

\* A mutant of send_message_to_channel: the channel is looked up under the
\* name as typed.
send_message_to_channel_exact(f, c, channel_name, message, users, o1) ==
    IF c = None THEN [calls |-> <<>>, result |-> NotConfigured]
    ELSE post_to_channel(f, channel_name, message, users, o1)

\* send_message_to_channel
send_message_to_channel(f, c, channel_name, message, users, o1) ==
    IF c = None THEN [calls |-> <<>>, result |-> NotConfigured]
    ELSE post_to_channel(f, Lower(channel_name), message, users, o1)

(***************************************************************************)
(* Status updater.                                                         *)
(***************************************************************************)
MaxExpirationMinutes == 1440

\* The text after "Status updated: <description>"
expiration_text(expiration_minutes) ==
    IF expiration_minutes <= 0 THEN <<>>
    ELSE IF expiration_minutes < 60
    THEN <<" (expires in ", ToString(expiration_minutes), " minutes)">>
    ELSE LET hours == expiration_minutes \div 60
             minutes == expiration_minutes % 60
         IN  IF minutes > 0
             THEN <<" (expires in ", ToString(hours), "h ",
                    ToString(minutes), "m)">>
             ELSE <<" (expires in ", ToString(hours), " hours)">>

\* A mutant of the clamp: the minutes are used as given.
clamp_expiration_none(expiration_minutes) == expiration_minutes

\* if expiration_minutes > 1440: expiration_minutes = 1440
clamp_expiration(expiration_minutes) ==
    IF expiration_minutes > MaxExpirationMinutes
    THEN MaxExpirationMinutes ELSE expiration_minutes

\* A mutant of the gate: only status content opens it.
status_gate_content_only(status_text, status_emoji, presence, expiration_minutes) ==
    status_text # <<>> \/ status_emoji # <<>> \/ expiration_minutes > 0

\* has_status_content or explicitly_clearing
status_gate(status_text, status_emoji, presence, expiration_minutes) ==
    LET has_status_content ==
            status_text # <<>> \/ status_emoji # <<>> \/ expiration_minutes > 0
        explicitly_clearing ==
            (status_text = <<>> \/ status_emoji = <<>>) /\ presence # <<>>
    IN  has_status_content \/ explicitly_clearing

\* update_slack_status.  now is int(time.time()); o1 and o2 are the outcomes
\* of users_profile_set and users_setPresence, should the call make them.
\* The two marks that open a line of the result are written :check: and
\* :cross: (U+2705 and U+274C in the source).
update_slack_status(c, status_text, status_emoji, presence, expiration_minutes, now, o1, o2) ==
    LET gate == status_gate(status_text, status_emoji, presence,
                            expiration_minutes)
        minutes == clamp_expiration(expiration_minutes)
        expiration == IF minutes > 0 THEN now + minutes * 60 ELSE 0
        profile_data ==
            [status_text |-> status_text, status_emoji |-> status_emoji,
             has_expiration |-> expiration > 0,
             status_expiration |-> expiration]
        profile_call == Call("users_profile_set", [profile |-> profile_data], o1)
        status_parts ==
            (IF status_emoji # <<>>
             THEN << <<"Emoji: ">> \o status_emoji >> ELSE <<>>)
            \o (IF status_text # <<>>
                THEN << <<"Text: '">> \o status_text \o <<"'">> >> ELSE <<>>)
        status_result ==
            IF o1.kind = "ok"
            THEN IF status_parts # <<>>
                 THEN <<":check: Status updated: ">> \o Join(status_parts, <<" | ">>)
                      \o expiration_text(minutes)
                 ELSE <<":check: Status cleared">>
            ELSE <<":cross: Status update failed: ", o1.error>>
        p == Lower(presence)
        presence_value ==
            IF p = <<"o","n","l","i","n","e">> \/ p = <<"a","u","t","o">>
            THEN "auto"
            ELSE IF p = <<"a","w","a","y">> THEN "away" ELSE "none"
        presence_call ==
            Call("users_setPresence", [presence |-> presence_value], o2)
        presence_result ==
            IF presence_value = "none"
            THEN <<":cross: Invalid presence '">> \o presence
                 \o <<"'. Use 'online' or 'away'">>
            ELSE IF o2.kind = "ok"
            THEN IF presence_value = "away"
                 THEN <<":check: Presence set to AWAY (offline) - green dot hidden">>
                 ELSE <<":check: Presence set to ONLINE - green dot visible">>
            ELSE <<":cross: Presence update failed: ", o2.error>>
        calls1 == IF gate THEN <<profile_call>> ELSE <<>>
        results1 == IF gate THEN <<status_result>> ELSE <<>>
        calls2 == IF presence # <<>> /\ presence_value # "none"
                  THEN <<presence_call>> ELSE <<>>
        results2 == IF presence # <<>> THEN <<presence_result>> ELSE <<>>
    IN  IF c = None THEN [calls |-> <<>>, result |-> NotConfigured]
        ELSE IF gate /\ o1.kind = "raised"
        THEN [calls |-> calls1, result |-> <<"Error: ", o1.error>>]
        ELSE IF calls2 # <<>> /\ o2.kind = "raised"
        THEN [calls |-> calls1 \o calls2, result |-> <<"Error: ", o2.error>>]
        ELSE [calls |-> calls1 \o calls2,
              result |-> IF results1 \o results2 # <<>>
                         THEN Join(results1 \o results2, <<"\n">>)
                         ELSE <<"No changes requested. Specify status_text, status_emoji, presence, or expiration_minutes.">>]

(***************************************************************************)
(* Message aggregator.                                                     *)
(***************************************************************************)
MaxLimit == 100     \* min(limit, 100) of get_my_messages
MaxHistory == 20    \* min(limit, 20) of conversations_history

MinOf(a, b) == IF a < b THEN a ELSE b

Max(S) == CHOOSE x \in S : \A y \in S : x >= y

\* s[:n] of Python
Take(s, n) ==
    IF n >= Len(s) THEN s
    ELSE IF n >= 0 THEN SubSeq(s, 1, n)
    ELSE IF Len(s) + n > 0 THEN SubSeq(s, 1, Len(s) + n) ELSE <<>>

\* _get_from_user_from_id
get_from_user_from_id(user_id, config) ==
    IF ~config.has_users THEN user_id
    ELSE LET hits == {i \in 1..Len(config.users) :
                         config.users[i].v.id = user_id}
             user_data == config.users[Min(hits)].v
         IN  IF hits = {} THEN user_id
             ELSE IF user_data.display_name # <<>> THEN user_data.display_name
             ELSE IF user_data.real_name # <<>> THEN user_data.real_name
             ELSE IF user_data.username # <<>> THEN user_data.username
             ELSE user_id

Pad2(n) == IF n < 10 THEN "0" \o ToString(n) ELSE ToString(n)

\* strftime("%H:%M:%S") of the timestamp (UTC); ts = 0 stands for a message
\* without "ts"
time_str_of(ts) ==
    IF ts = 0 THEN <<"Unknown time">>
    ELSE <<Pad2((ts \div 3600) % 24), ":", Pad2((ts \div 60) % 60), ":",
           Pad2(ts % 60)>>

\* The messages of one history response that the loop keeps
retained(messages, current_user_id) ==
    SelectSeq(messages,
              LAMBDA m : m.user # current_user_id /\ ~m.bot_id /\ ~m.subtype)

\* The context label of a conversation's messages
context_of(conversation, config, current_user_id) ==
    IF conversation.is_im THEN <<"Direct Message">>
    ELSE IF conversation.is_mpim
    THEN IF conversation.members.outcome.kind = "ok"
         THEN LET others == SelectSeq(conversation.members.members,
                                      LAMBDA id : id # current_user_id)
                  member_names == [i \in 1..Len(others) |->
                                      get_from_user_from_id(others[i], config)]
              IN  <<"Group: [">> \o Join(member_names, <<", ">>) \o <<"]">>
         ELSE <<"Group DM">>
    ELSE IF conversation.is_private
    THEN <<"Private Channel: #">> \o conversation.name
    ELSE <<"Unknown">>

RECURSIVE scan_conversations(_, _, _, _, _)
\* The loop over conversations_response["channels"]: acc collects the remote
\* calls, all_messages, and whether a call raised (which ends the helper).
scan_conversations(conversations, config, current_user_id, limit, acc) ==
    IF conversations = <<>> THEN acc
    ELSE LET conversation == Head(conversations)
             n == MinOf(limit, MaxHistory)
             history_call ==
                 Call("conversations_history",
                      [channel |-> conversation.id, limit |-> n],
                      conversation.history.outcome)
             members_call ==
                 Call("conversations_members", [channel |-> conversation.id],
                      conversation.members.outcome)
             kept == retained(Take(conversation.history.messages, n),
                              current_user_id)
             asks_members == ~conversation.is_im /\ conversation.is_mpim
                             /\ kept # <<>>
             context == context_of(conversation, config, current_user_id)
             found == [i \in 1..Len(kept) |->
                          [timestamp |-> kept[i].ts,
                           time_str |-> time_str_of(kept[i].ts),
                           sender |-> get_from_user_from_id(kept[i].user, config),
                           text |-> kept[i].text,
                           context |-> context]]
         IN  IF ~(conversation.is_im \/ conversation.is_mpim
                  \/ conversation.is_private)
             THEN scan_conversations(Tail(conversations), config,
                                     current_user_id, limit, acc)
             ELSE IF conversation.history.outcome.kind = "raised"
             THEN [acc EXCEPT !.calls = Append(@, history_call),
                              !.raised = TRUE]
             ELSE IF conversation.history.outcome.kind = "rejected"
             THEN scan_conversations(
                      Tail(conversations), config, current_user_id, limit,
                      [acc EXCEPT !.calls = Append(@, history_call)])
             ELSE IF asks_members
                     /\ conversation.members.outcome.kind = "raised"
             THEN [acc EXCEPT !.calls = @ \o <<history_call, members_call>>,
                              !.raised = TRUE]
             ELSE scan_conversations(
                      Tail(conversations), config, current_user_id, limit,
                      [acc EXCEPT
                          !.calls = @ \o <<history_call>>
                                    \o (IF asks_members
                                        THEN [i \in 1..Len(kept) |-> members_call]
                                        ELSE <<>>),
                          !.all_messages = @ \o found])

\* all_messages.sort(key=lambda x: x["timestamp"], reverse=True): the sort
\* is stable, so a message comes behind the newer ones and behind the ones of
\* its own timestamp that were read before it.
sort_newest_first(messages) ==
    LET n == Len(messages)
        place == SubSeq([i \in 1..n |->
                            1 + Cardinality(
                                {j \in 1..n :
                                    \/ messages[j].timestamp > messages[i].timestamp
                                    \/ /\ messages[j].timestamp = messages[i].timestamp
                                       /\ j < i})],
                        1, n)
    IN  SubSeq([p \in 1..n |-> messages[CHOOSE i \in 1..n : place[i] = p]], 1, n)

\* The entries of a dict of lists filled in the order of items, keyed by
\* items[i].context: one entry per key, in the order the keys were first seen
group_in_order(items) ==
    LET n == Len(items)
        firsts == {i \in 1..n :
                      \A j \in 1..(i - 1) : items[j].context # items[i].context}
        nth(k) == CHOOSE i \in firsts : Cardinality({j \in firsts : j <= i}) = k
    IN  [k \in 1..Cardinality(firsts) |->
            [context |-> items[nth(k)].context,
             messages |-> SelectSeq(items,
                                    LAMBDA m : m.context = items[nth(k)].context)]]

\* The contexts dict of _get_direct_and_group_messages
group_by_context(messages) == group_in_order(messages)

\* f"[{msg['time_str']}] {msg['sender']}: {msg['text']}"
format_line(msg) ==
    <<"[">> \o msg.time_str \o <<"] ">> \o msg.sender \o <<": ">> \o msg.text

\* The lines of formatted_output for the groups
format_groups(contexts, opening) ==
    LET lines_of(g) ==
            << <<"\n">> \o opening \o g.context \o <<":">> >>
            \o [i \in 1..Len(g.messages) |-> format_line(g.messages[i])]
        LinesFrom[k \in 1..(Len(contexts) + 1)] ==
            IF k > Len(contexts) THEN <<>>
            ELSE lines_of(contexts[k]) \o LinesFrom[k + 1]
    IN  Join(LinesFrom[1], <<"\n">>)

NoSection ==
    [is_none |-> TRUE, text |-> <<>>, all_messages |-> <<>>, contexts |-> <<>>]

\* A mutant of the merge: the list is cut to the limit before it is sorted.
merge_cut_then_sort(all_messages, limit) ==
    sort_newest_first(Take(all_messages, limit))

\* A mutant of the merge: the list is cut to the limit and keeps the order in
\* which the conversations were read.
merge_unsorted(all_messages, limit) == Take(all_messages, limit)

\* Sort by timestamp, newest first, and cut to the limit
merge(all_messages, limit) == Take(sort_newest_first(all_messages), limit)

\* _get_direct_and_group_messages.  resp is the answer of conversations_list:
\* [outcome, channels], each channel with the answers of its history and
\* members calls.
get_direct_and_group_messages(config, current_user_id, limit, resp) ==
    LET list_call ==
            Call("conversations_list",
                 [types |-> "im,mpim,private_channel"], resp.outcome)
        scan == scan_conversations(
                    resp.channels, config, current_user_id, limit,
                    [calls |-> <<list_call>>, all_messages |-> <<>>,
                     raised |-> FALSE])
        contexts == group_by_context(merge(scan.all_messages, limit))
    IN  IF resp.outcome.kind # "ok" \/ ~config.exists
        THEN [calls |-> <<list_call>>, section |-> NoSection]
        ELSE IF scan.raised \/ scan.all_messages = <<>>
        THEN [calls |-> scan.calls, section |-> NoSection]
        ELSE [calls |-> scan.calls,
              section |-> [is_none |-> FALSE,
                           text |-> format_groups(contexts, <<>>),
                           all_messages |-> scan.all_messages,
                           contexts |-> contexts]]

Whitespace == {" ", "\n", "\t"}

\* str.strip()
Strip(text) ==
    LET solid == {i \in 1..Len(text) : text[i] \notin Whitespace}
    IN  IF solid = {} THEN <<>> ELSE SubSeq(text, Min(solid), Max(solid))

RECURSIVE Replace(_, _)
\* text.replace(old, "")
Replace(text, old) ==
    IF Len(text) < Len(old) THEN text
    ELSE IF SubSeq(text, 1, Len(old)) = old
    THEN Replace(SubSeq(text, Len(old) + 1, Len(text)), old)
    ELSE <<text[1]>> \o Replace(Tail(text), old)

\* The channels dict of _get_channel_mentions
group_by_channel(lines) == group_in_order(lines)

\* _get_channel_mentions.  resp is the answer of search_messages:
\* [outcome, matches]; the platform returns at most count matches.
get_channel_mentions(config, current_user_id, limit, resp) ==
    LET call == Call("search_messages",
                     [query |-> <<"<@">> \o current_user_id \o <<">">>,
                      count |-> limit], resp.outcome)
        matches == Take(resp.matches, limit)
        artifact == <<"<@">> \o current_user_id \o <<"|Indie Builds>">>
        lines == [i \in 1..Len(matches) |->
                     [context |-> matches[i].channel,
                      time_str |-> time_str_of(matches[i].ts),
                      sender |-> get_from_user_from_id(matches[i].user, config),
                      text |-> Strip(Replace(matches[i].text, artifact))]]
    IN  IF resp.outcome.kind # "ok" \/ matches = <<>> \/ ~config.exists
        THEN [calls |-> <<call>>, is_none |-> TRUE, text |-> <<>>]
        ELSE [calls |-> <<call>>, is_none |-> FALSE,
              text |-> format_groups(group_by_channel(lines), <<"In #">>)]

\* auth_response["user_id"]
Me == <<"U0">>

NoReport == [all_messages |-> <<>>, contexts |-> <<>>]

\* get_my_messages behind its check of the client.  auth is the outcome of
\* auth_test.
get_my_messages_configured(config, limit, auth, convs, search) ==
    LET auth_call == Call("auth_test", NoArgs, auth)
        current_user_id == Me
        capped == MinOf(limit, MaxLimit)
        dm == get_direct_and_group_messages(config, current_user_id, capped,
                                            convs)
        ch == get_channel_mentions(config, current_user_id, capped, search)
        dm_shown == ~dm.section.is_none /\ dm.section.text # <<>>
        ch_shown == ~ch.is_none /\ ch.text # <<>>
        final_output ==
            (IF dm_shown
             THEN << <<"=== DIRECT & GROUP MESSAGES ===">>, dm.section.text >>
             ELSE <<>>)
            \o (IF ch_shown
                THEN << IF dm_shown
                        THEN <<"\n=== CHANNEL MENTIONS ===">>
                        ELSE <<"=== CHANNEL MENTIONS ===">>,
                        ch.text >>
                ELSE <<>>)
    IN  IF auth.kind = "raised"
        THEN [calls |-> <<auth_call>>, result |-> <<"Error: ", auth.error>>,
              report |-> NoReport]
        ELSE IF auth.kind = "rejected"
        THEN [calls |-> <<auth_call>>,
              result |-> <<"Error getting user info: ", auth.error>>,
              report |-> NoReport]
        ELSE [calls |-> <<auth_call>> \o dm.calls \o ch.calls,
              result |-> IF final_output = <<>>
                         THEN <<"No recent messages found.">>
                         ELSE Join(final_output, <<"\n">>),
              report |-> [all_messages |-> dm.section.all_messages,
                          contexts |-> dm.section.contexts]]

\* A mutant of get_my_messages: the client is not checked.
get_my_messages_unchecked(config, c, limit, auth, convs, search) ==
    get_my_messages_configured(config, limit, auth, convs, search)

\* get_my_messages
get_my_messages(config, c, limit, auth, convs, search) ==
    IF c = None
    THEN [calls |-> <<>>, result |-> NotConfigured, report |-> NoReport]
    ELSE get_my_messages_configured(config, limit, auth, convs, search)

(***************************************************************************)
(* The workspace the remote calls answer from, and the arguments the tools *)
(* are called with.                                                        *)
(***************************************************************************)
Member(id, name, display_name, real_name, first_name) ==
    [id |-> id, name |-> name, display_name |-> display_name,
     real_name |-> real_name, first_name |-> first_name,
     is_bot |-> FALSE, deleted |-> FALSE]

U1 == <<"U1">>
U2 == <<"U2">>
U3 == <<"U3">>
U9 == <<"U9">>

Alice == Member(U1, <<"a","l">>, <<"A","l","l","y">>, <<"A","l"," ","S">>, <<"A","l">>)
Bob == Member(U2, <<"b","o">>, <<>>, <<"B","o"," ","B">>, <<"B","o">>)
\* a member whose name lower-cases to Alice's key
Cy == Member(U3, <<"A","l">>, <<"C","y">>, <<"C","y"," ","C">>, <<"C","y">>)
\* Alice's account under another ID
Alice2 == [Alice EXCEPT !.id = U9]
Bot == [Member(<<"U7">>, <<"b","o","t">>, <<>>, <<>>, <<>>) EXCEPT !.is_bot = TRUE]
Gone == [Member(<<"U8">>, <<"g","o">>, <<>>, <<>>, <<>>) EXCEPT !.deleted = TRUE]

UserListings == {<<Alice, Bob, Bot>>, <<Cy, Alice, Gone>>, <<Alice2>>}

Failures == Outcomes \ {Ok}

UserResponses ==
    {[outcome |-> Ok, members |-> l] : l \in UserListings}
    \cup {[outcome |-> o, members |-> <<>>] : o \in Failures}

Channel(id, name) ==
    [id |-> id, name |-> name, is_archived |-> FALSE, is_member |-> TRUE]

General == Channel(<<"C1">>, <<"G","e","n">>)
Dev == Channel(<<"C2">>, <<"d","e","v">>)
Old == [Channel(<<"C3">>, <<"o","l","d">>) EXCEPT !.is_archived = TRUE]
Other == [Channel(<<"C4">>, <<"o","t","h">>) EXCEPT !.is_member = FALSE]
\* the channel "gen" under another ID
General2 == Channel(<<"C9">>, <<"g","e","n">>)

ChannelListings == {<<General, Dev, Old>>, <<General2, Other>>}

ChannelResponses ==
    {[outcome |-> Ok, channels |-> l] : l \in ChannelListings}
    \cup {[outcome |-> o, channels |-> <<>>] : o \in Failures}

Tokens == {<<"xoxp-1">>, <<"xoxp-2">>}

\* Names a caller asks for
Queries == {<<"a","l">>, <<"A","L">>, <<"B","o">>, <<"z","e","d">>}

NameLists == UNION {[1..n -> Queries] : n \in 0..MaxNames}

ChannelNames == {<<"G","e","n">>, <<"g","e","n">>, <<"D","E","V">>, <<"o","l","d">>}

Messages == {<<"hi">>}

(***************************************************************************)
(* The state at startup and the operations.                                *)
(***************************************************************************)
\* A config file written by hand: the token alone
TokenOnly ==
    [initial_config(<<"xoxp-1">>) EXCEPT
        !.has_users = FALSE, !.has_channels = FALSE]

\* A config file written by hand that lacks user_token
NoToken ==
    [initial_config(<<>>) EXCEPT
        !.has_token = FALSE,
        !.users = <<[k |-> <<"a","l">>, v |-> user_data_of(Alice)]>>,
        !.channels = <<[k |-> <<"g","e","n">>, v |-> <<"C1">>]>>]

StartFiles == {NoFile, TokenOnly, NoToken}

\* The module-level client: built from the file's user_token when the file
\* exists and holds one
startup_client(f) ==
    IF f.exists /\ f.has_token THEN f.user_token ELSE None

Idle ==
    [op |-> "idle", args |-> NoArgs, io |-> "ok", calls |-> <<>>,
     result |-> <<>>, report |-> NoReport]

\* A server process that runs no sync
NoRun ==
    [pc |-> "idle", kind |-> "none", current_config |-> NoFile,
     resp |-> NoArgs, written |-> NoFile, result |-> <<>>]

Processes == {1, 2}

Init ==
    /\ file \in StartFiles
    /\ client = startup_client(file)
    /\ last = Idle
    /\ runs = [p \in Processes |-> NoRun]

\* The transport hands the result to the caller and awaits the next call.
Deliver ==
    /\ last.op # "idle"
    /\ last' = Idle
    /\ UNCHANGED <<file, client, runs>>

Setup ==
    /\ last.op = "idle"
    /\ \E user_token \in Tokens, uresp \in UserResponses,
          cresp \in ChannelResponses,
          io \in {"ok", "setup_write_fails", "sync_write_fails"} :
          LET r == slack_setup(file, client, user_token, io, uresp, cresp)
          IN  /\ file' = r.file
              /\ client' = r.client
              /\ last' = [op |-> "slack_setup",
                          args |-> [user_token |-> user_token],
                          io |-> io, calls |-> r.calls, result |-> r.result,
                          report |-> NoReport]
    /\ UNCHANGED runs

\* _get_user_ids run on its own
SyncUsers ==
    \E resp \in UserResponses, io \in {"ok", "sync_write_fails"} :
        LET r == get_user_ids(file, client, resp, io)
        IN  /\ file' = r.file
            /\ last' = [op |-> "get_user_ids", args |-> [resp |-> resp],
                        io |-> io, calls |-> r.calls, result |-> r.result,
                        report |-> NoReport]
            /\ UNCHANGED <<client, runs>>

\* _get_channel_ids run on its own
SyncChannels ==
    \E resp \in ChannelResponses, io \in {"ok", "sync_write_fails"} :
        LET r == get_channel_ids(file, client, resp, io)
        IN  /\ file' = r.file
            /\ last' = [op |-> "get_channel_ids", args |-> [resp |-> resp],
                        io |-> io, calls |-> r.calls, result |-> r.result,
                        report |-> NoReport]
            /\ UNCHANGED <<client, runs>>

\* A mutant of SendUser: the names are resolved in the mappings of the file
\* as it was when the server started, not in the file as it is now.
SendUser_stale ==
    /\ last.op = "idle"
    /\ \E user_names \in NameLists, message \in Messages,
          o1 \in Outcomes, o2 \in Outcomes :
          LET r == send_message_to_user(TokenOnly, client, user_names,
                                        message, o1, o2)
          IN  last' = [op |-> "send_message_to_user",
                       args |-> [user_names |-> user_names,
                                 message |-> message],
                       io |-> "ok", calls |-> r.calls, result |-> r.result,
                       report |-> NoReport]
    /\ UNCHANGED <<file, client, runs>>

SendUser ==
    /\ last.op = "idle"
    /\ \E user_names \in NameLists, message \in Messages,
          o1 \in Outcomes, o2 \in Outcomes :
          LET r == send_message_to_user(file, client, user_names, message,
                                        o1, o2)
          IN  last' = [op |-> "send_message_to_user",
                       args |-> [user_names |-> user_names,
                                 message |-> message],
                       io |-> "ok", calls |-> r.calls, result |-> r.result,
                       report |-> NoReport]
    /\ UNCHANGED <<file, client, runs>>

SendChannel ==
    /\ last.op = "idle"
    /\ \E channel_name \in ChannelNames, message \in Messages,
          users \in NameLists, o1 \in Outcomes :
          LET r == send_message_to_channel(file, client, channel_name,
                                           message, users, o1)
          IN  last' = [op |-> "send_message_to_channel",
                       args |-> [channel_name |-> channel_name,
                                 message |-> message, users |-> users],
                       io |-> "ok", calls |-> r.calls, result |-> r.result,
                       report |-> NoReport]
    /\ UNCHANGED <<file, client, runs>>

Texts == {<<>>, <<"In a meeting">>}
Emojis == {<<>>, <<":dog:">>}
Presences ==
    {<<>>, <<"a","w","a","y">>, <<"A","w","a","y">>,
     <<"o","n","l","i","n","e">>, <<"b","u","s","y">>}
Expirations == {-5, 0, 30, 90, 1440, 2000}
Now == 100000

UpdateStatus ==
    /\ last.op = "idle"
    /\ \E status_text \in Texts, status_emoji \in Emojis,
          presence \in Presences, expiration_minutes \in Expirations,
          o1 \in Outcomes, o2 \in Outcomes :
          LET r == update_slack_status(client, status_text, status_emoji,
                                       presence, expiration_minutes, Now,
                                       o1, o2)
          IN  last' = [op |-> "update_slack_status",
                       args |-> [status_text |-> status_text,
                                 status_emoji |-> status_emoji,
                                 presence |-> presence,
                                 expiration_minutes |-> expiration_minutes],
                       io |-> "ok", calls |-> r.calls, result |-> r.result,
                       report |-> NoReport]
    /\ UNCHANGED <<file, client, runs>>

(***************************************************************************)
(* Sync runs of two server processes on the one config file.  A run loads  *)
(* the file into current_config, asks the platform, and dumps              *)
(* current_config over the file when it added an entry; nothing locks the  *)
(* file between the load and the dump.                                     *)
(***************************************************************************)
\* A mutant of the dump: only the section the run synchronises is replaced.
config_after_dump_section(on_disk, kind, current_config, dumped) ==
    IF dumped = current_config THEN on_disk
    ELSE IF kind = "users"
    THEN [on_disk EXCEPT !.has_users = dumped.has_users,
                         !.users = dumped.users]
    ELSE [on_disk EXCEPT !.has_channels = dumped.has_channels,
                         !.channels = dumped.channels]

\* The file after the end of a run: yaml.safe_dump(current_config, file)
\* replaces the whole file, and runs only when the run added an entry.
config_after_dump(on_disk, kind, current_config, dumped) ==
    IF dumped = current_config THEN on_disk ELSE dumped

\* The sync helper of a run, applied to the config the run loaded
sync_helper(kind, current_config, c, resp) ==
    IF kind = "users" THEN get_user_ids(current_config, c, resp, "ok")
    ELSE get_channel_ids(current_config, c, resp, "ok")

RaceInputs ==
    {[kind |-> "users", resp |-> r] : r \in UserResponses}
    \cup {[kind |-> "channels", resp |-> r] : r \in ChannelResponses}

\* The process passes the client check and loads the file.
ReadConfig(p) ==
    /\ runs[p].pc = "idle"
    /\ client # None
    /\ file.exists
    /\ \E in \in RaceInputs :
          runs' = [runs EXCEPT ![p] =
                      [pc |-> "read", kind |-> in.kind,
                       current_config |-> file, resp |-> in.resp,
                       written |-> NoFile, result |-> <<>>]]
    /\ UNCHANGED <<file, client, last>>

\* The process gets the platform's answer, merges it into current_config and
\* dumps current_config when it added an entry.
WriteConfig(p) ==
    /\ runs[p].pc = "read"
    /\ LET run == runs[p]
           r == sync_helper(run.kind, run.current_config, client, run.resp)
       IN  /\ file' = config_after_dump(file, run.kind, run.current_config,
                                        r.file)
           /\ runs' = [runs EXCEPT ![p] =
                          [run EXCEPT !.pc = "done", !.written = r.file,
                                      !.result = r.result]]
    /\ UNCHANGED <<client, last>>

\* The helper has returned.
FinishRun(p) ==
    /\ runs[p].pc = "done"
    /\ runs' = [runs EXCEPT ![p] = NoRun]
    /\ UNCHANGED <<file, client, last>>

NextRace ==
    \E p \in Processes : ReadConfig(p) \/ WriteConfig(p) \/ FinishRun(p)

SpecRace == Init /\ [][NextRace]_vars

(***************************************************************************)
(* Conversations the platform answers get_my_messages with.                *)
(***************************************************************************)
Msg(ts, user, text) ==
    [ts |-> ts, user |-> user, bot_id |-> FALSE, subtype |-> FALSE,
     text |-> text]

Conv(id, kind, name, messages) ==
    [id |-> id, is_im |-> kind = "im", is_mpim |-> kind = "mpim",
     is_private |-> kind = "private", name |-> name,
     history |-> [outcome |-> Ok, messages |-> messages],
     members |-> [outcome |-> Ok, members |-> <<Me, U1, U2>>]]

DmAlice ==
    Conv(<<"D1">>, "im", <<>>,
         <<Msg(3650, U1, <<"a1">>), Msg(3640, Me, <<"mine">>),
           Msg(3630, U1, <<"a2">>), Msg(3610, U1, <<"a3">>)>>)

DmBob ==
    Conv(<<"D2">>, "im", <<>>,
         <<Msg(3650, U2, <<"b1">>), Msg(3620, U2, <<"b2">>)>>)

GroupAB ==
    Conv(<<"G1">>, "mpim", <<>>,
         <<Msg(3645, U2, <<"g1">>), Msg(3620, U1, <<"g2">>)>>)

Private ==
    Conv(<<"P1">>, "private", <<"s","e","c">>,
         <<Msg(3660, U9, <<"p1">>),
           [Msg(3655, U1, <<"bot">>) EXCEPT !.bot_id = TRUE],
           [Msg(3652, U1, <<"joined">>) EXCEPT !.subtype = TRUE],
           Msg(3635, U2, <<"p2">>), Msg(0, U2, <<"p3">>)>>)

Public == Conv(<<"C1">>, "public", <<"g","e","n">>, <<Msg(3700, U1, <<"x">>)>>)

HistoryRejected ==
    [DmBob EXCEPT !.history.outcome = Rejected("channel_not_found")]
HistoryRaised == [DmBob EXCEPT !.history.outcome = Raised("timed out")]
MembersRejected ==
    [GroupAB EXCEPT !.members.outcome = Rejected("fetch_members_failed")]
MembersRaised == [GroupAB EXCEPT !.members.outcome = Raised("timed out")]

\* NumBigConvs direct conversations of MaxHistory messages each, the
\* timestamps interleaved across the conversations
BigConv(k) ==
    Conv(<<"D", ToString(k)>>, "im", <<>>,
         [j \in 1..MaxHistory |->
             Msg(5000 - NumBigConvs * j - k, IF k % 2 = 0 THEN U1 ELSE U2,
                 <<"m", ToString(k), ToString(j)>>)])

BigListing == [k \in 1..NumBigConvs |-> BigConv(k)]

SmallListings ==
    {<<>>,
     <<DmAlice, GroupAB, Private>>,
     <<Public, DmBob, DmAlice>>,
     <<MembersRejected, HistoryRejected, DmAlice>>,
     <<DmAlice, HistoryRaised>>,
     <<DmAlice, MembersRaised>>}

ConversationResponses ==
    {[outcome |-> Ok, channels |-> l] : l \in SmallListings}
    \cup {[outcome |-> o, channels |-> <<>>] : o \in Failures}

Match(channel, ts, user, text) ==
    [channel |-> channel, ts |-> ts, user |-> user, text |-> text]

Matches1 ==
    <<Match(<<"g","e","n">>, 3900, U1,
            <<"<@">> \o Me \o <<"|Indie Builds>", " ", "ping", " ">>),
      Match(<<"d","e","v">>, 3800, U9, <<"<@">> \o Me \o <<">", " ", "hey">>),
      Match(<<"g","e","n">>, 3700, U2, <<"again">>)>>

SearchResponses ==
    {[outcome |-> Ok, matches |-> <<>>], [outcome |-> Ok, matches |-> Matches1]}
    \cup {[outcome |-> o, matches |-> <<>>] : o \in Failures}

Limits == {0, 1, 2, 5, 150}

\* What get_my_messages is called with and answered: every small case, and
\* the large listing under a limit above and one at MaxLimit
MessageInputs ==
    [limit : Limits, auth : Outcomes, convs : ConversationResponses,
     search : SearchResponses]
    \cup [limit : {MaxLimit, 150}, auth : {Ok},
          convs : {[outcome |-> Ok, channels |-> BigListing]},
          search : {[outcome |-> Ok, matches |-> <<>>]}]

GetMyMessages ==
    /\ last.op = "idle"
    /\ \E inp \in MessageInputs :
          LET r == get_my_messages(file, client, inp.limit, inp.auth,
                                   inp.convs, inp.search)
          IN  last' = [op |-> "get_my_messages",
                       args |-> [limit |-> inp.limit],
                       io |-> "ok", calls |-> r.calls, result |-> r.result,
                       report |-> r.report]
    /\ UNCHANGED <<file, client, runs>>

(***************************************************************************)
(* Specifications.  Spec: the five tools as the transport calls them.      *)
(* SpecSync: setup and the two directory syncs run on their own, back to   *)
(* back.                                                                   *)
(***************************************************************************)
Next ==
    \/ Setup
    \/ SendUser
    \/ SendChannel
    \/ GetMyMessages
    \/ UpdateStatus
    \/ Deliver

Spec == Init /\ [][Next]_vars

NextSync ==
    \/ Setup
    \/ SyncUsers
    \/ SyncChannels
    \/ Deliver

SpecSync == Init /\ [][NextSync]_vars

(***************************************************************************)
(* Properties.                                                             *)
(***************************************************************************)
Range(s) == {s[i] : i \in 1..Len(s)}

\* The names of a list that the resolver does not find in the file
Unresolved(names) ==
    {i \in 1..Len(names) : get_slack_user(file, names[i]) = None}

UserNotFound(name) == <<"Error: User '">> \o name \o <<"' not found in config">>

\* C1: a send_message_to_user call, one of whose recipient names does not
\* resolve, makes no remote call at all (so neither chat_postMessage nor
\* conversations_open), whatever the other names are; on a configured session
\* it returns the error that names the first name of the list that does not
\* resolve.
C1_NoPartialSend ==
    (last.op = "send_message_to_user"
     /\ Unresolved(last.args.user_names) # {})
    => /\ \A i \in 1..Len(last.calls) :
              last.calls[i].api \notin {"chat_postMessage", "conversations_open"}
       /\ last.calls = <<>>
       /\ client # None
          => last.result
             = UserNotFound(last.args.user_names[Min(Unresolved(last.args.user_names))])

\* A call with a resolved name before an unresolved one ended with the error
\* naming the second and with nothing sent to the first.
C1_Witness ==
    /\ last.op = "send_message_to_user"
    /\ client # None
    /\ Len(last.args.user_names) = 2
    /\ Unresolved(last.args.user_names) = {2}
    /\ last.result = UserNotFound(last.args.user_names[2])
    /\ last.calls = <<>>

\* C3: a send_message_to_channel call on a configured session looks the
\* channel up under the lower-cased name.  When the channel and every mention
\* resolve, it makes exactly one remote call, chat_postMessage to the stored
\* channel ID, with the text "<@ID1> ... <@IDn> body" (the body alone without
\* mentions), and, the post accepted, the result reports success and lists the
\* mentioned names.  When the channel or a mention does not resolve it makes
\* no remote call.
C3_ChannelSend ==
    (last.op = "send_message_to_channel" /\ client # None)
    => LET a == last.args
           key == Lower(a.channel_name)
           known == file.exists /\ file.has_channels
                    /\ \E i \in 1..Len(file.channels) : file.channels[i].k = key
           ids == [i \in 1..Len(a.users) |-> get_slack_user(file, a.users[i])]
           tokens == [i \in 1..Len(a.users) |-> <<"<@">> \o ids[i] \o <<">">>]
           text == IF a.users = <<>> THEN a.message
                   ELSE Join(tokens, <<" ">>) \o <<" ">> \o a.message
       IN  IF known /\ Unresolved(a.users) = {}
           THEN /\ Len(last.calls) = 1
                /\ last.calls[1].api = "chat_postMessage"
                /\ \E i \in 1..Len(file.channels) :
                      /\ file.channels[i].k = key
                      /\ last.calls[1].args.channel = file.channels[i].v
                /\ last.calls[1].args.text = text
                /\ last.calls[1].outcome.kind = "ok"
                   => last.result
                      = <<"Message sent successfully to #">> \o key \o <<"!">>
                        \o (IF a.users = <<>> THEN <<>>
                            ELSE <<" (mentioning ">> \o Join(a.users, <<", ">>)
                                 \o <<")">>)
           ELSE last.calls = <<>>

\* The scenario of the claim: ("Gen", "hi", ["AL"]) with users {al: id U1} and
\* channels {gen: C1} posts "<@U1> hi" to C1 and reports success.
C3_Witness ==
    /\ last.op = "send_message_to_channel"
    /\ last.args.channel_name = <<"G","e","n">>
    /\ last.args.users = << <<"A","L">> >>
    /\ last.calls
       = <<Call("chat_postMessage",
                [channel |-> <<"C1">>, text |-> <<"<@", "U1", ">", " ", "hi">>],
                Ok)>>
    /\ last.result
       = <<"Message sent successfully to #", "g", "e", "n", "!",
           " (mentioning ", "A", "L", ")">>

StatusCalls(api) == {i \in 1..Len(last.calls) : last.calls[i].api = api}

\* C8: in an update_slack_status call on a configured session the profile
\* update is issued exactly when the text is non-empty, or the emoji is
\* non-empty, or expiration_minutes > 0, or text and emoji are empty and a
\* presence is given.  With everything empty and no presence the call makes no
\* remote call and returns the no-op response.  With empty text, empty emoji and
\* presence "away" it issues a clearing profile update and then, unless that
\* call raised, a presence update to away; both accepted, the result is the
\* status-cleared line followed by the presence-away line.
C8_StatusGating ==
    (last.op = "update_slack_status" /\ client # None)
    => LET a == last.args
           issued == StatusCalls("users_profile_set") # {}
       IN  /\ issued <=> \/ a.status_text # <<>>
                         \/ a.status_emoji # <<>>
                         \/ a.expiration_minutes > 0
                         \/ /\ a.status_text = <<>>
                            /\ a.status_emoji = <<>>
                            /\ a.presence # <<>>
           /\ Cardinality(StatusCalls("users_profile_set")) <= 1
           /\ (a.status_text = <<>> /\ a.status_emoji = <<>>
               /\ a.presence = <<>> /\ a.expiration_minutes <= 0)
              => /\ last.calls = <<>>
                 /\ last.result = <<"No changes requested. Specify status_text, status_emoji, presence, or expiration_minutes.">>
           /\ (a.status_text = <<>> /\ a.status_emoji = <<>>
               /\ a.presence = <<"a","w","a","y">>)
              => /\ last.calls[1].api = "users_profile_set"
                 /\ last.calls[1].args.profile.status_text = <<>>
                 /\ last.calls[1].args.profile.status_emoji = <<>>
                 /\ last.calls[1].outcome.kind # "raised"
                    => /\ Len(last.calls) = 2
                       /\ last.calls[2].api = "users_setPresence"
                       /\ last.calls[2].args.presence = "away"
                 /\ (\A i \in 1..Len(last.calls) :
                        last.calls[i].outcome.kind = "ok")
                    => last.result
                       = <<":check: Status cleared", "\n",
                           ":check: Presence set to AWAY (offline) - green dot hidden">>

\* ("", "", "away") with no expiry: the clearing profile update, the presence
\* update, and both confirmations.
C8_Witness ==
    /\ last.op = "update_slack_status"
    /\ last.args.status_text = <<>>
    /\ last.args.status_emoji = <<>>
    /\ last.args.presence = <<"a","w","a","y">>
    /\ last.args.expiration_minutes = 0
    /\ Len(last.calls) = 2
    /\ last.calls[1].api = "users_profile_set"
    /\ last.calls[2].api = "users_setPresence"
    /\ last.result
       = <<":check: Status cleared", "\n",
           ":check: Presence set to AWAY (offline) - green dot hidden">>

\* Queries in every letter case, names of no record, and the empty query
CaseQueries ==
    {<<"a","l">>, <<"A","l">>, <<"A","L">>, <<"B","O">>,
     <<"a","l","l","y">>, <<"A","L","L","Y">>, <<"a","l"," ","s">>,
     <<"c","y">>, <<"C","Y">>, <<"z","e","d">>, <<>>}

SameIgnoringCase(s, t) ==
    /\ Len(s) = Len(t)
    /\ \A i \in 1..Len(s) : LowerChar(s[i]) = LowerChar(t[i])

\* C9: on every config, two queries that differ only in letter case resolve to
\* the same result, and a query resolves to the ID of the first record one of
\* whose username, display name, real name or first name equals it ignoring
\* case (to None when there is no such record).
C9_CaseInsensitive ==
    /\ \A q1, q2 \in CaseQueries :
          SameIgnoringCase(q1, q2)
          => get_slack_user(file, q1) = get_slack_user(file, q2)
    /\ (file.exists /\ file.has_users)
       => \A q \in CaseQueries :
             LET hit(i) == LET u == file.users[i].v
                           IN  \/ SameIgnoringCase(u.username, q)
                               \/ SameIgnoringCase(u.display_name, q)
                               \/ SameIgnoringCase(u.real_name, q)
                               \/ SameIgnoringCase(u.first_name, q)
                 hits == {i \in 1..Len(file.users) : hit(i)}
             IN  get_slack_user(file, q)
                 = IF hits = {} THEN None
                   ELSE file.users[CHOOSE i \in hits : \A j \in hits : i <= j].v.id

\* A direct message asked for "AL" went to the ID of the record whose username
\* is stored as "al".
C9_Witness ==
    /\ last.op = "send_message_to_user"
    /\ last.args.user_names = << <<"A","L">> >>
    /\ Len(last.calls) = 1
    /\ \E i \in 1..Len(file.users) :
          /\ file.users[i].v.username = <<"a","l">>
          /\ last.calls[1].args.channel = file.users[i].v.id

ClientTools ==
    {"send_message_to_user", "send_message_to_channel", "get_my_messages",
     "update_slack_status"}

\* C10: a call of send_message_to_user, send_message_to_channel,
\* get_my_messages or update_slack_status made while there is no client
\* handle returns the not-configured message and makes no remote call; with a
\* client handle none of them returns that message.
C10_NotConfigured ==
    last.op \in ClientTools
    => /\ client = None => (last.result = NotConfigured /\ last.calls = <<>>)
       /\ client # None => last.result # NotConfigured

\* get_my_messages, called while a config file with name mappings exists but
\* no client handle does, returned the not-configured message.
C10_Witness ==
    /\ last.op = "get_my_messages"
    /\ client = None
    /\ file.exists
    /\ last.result = NotConfigured
    /\ last.calls = <<>>

SyncOps == {"get_user_ids", "get_channel_ids"}

\* Every entry of the mapping old is an entry of the mapping new.
Kept(old, new) ==
    \A i \in 1..Len(old) : \E j \in 1..Len(new) : new[j] = old[i]

\* C2: a run of _get_user_ids or _get_channel_ids leaves every users and
\* channels entry that the file held in the file with its value, and a run
\* that follows a completed run of the same sync with the same answer of the
\* platform reports "Added 0" and leaves the file as the first run left it.
C2_SyncAdditiveIdempotent ==
    [][ /\ last'.op \in SyncOps
           => /\ Kept(file.users, file'.users)
              /\ Kept(file.channels, file'.channels)
              /\ file'.has_token = file.has_token
              /\ file'.user_token = file.user_token
        /\ (/\ last.op \in SyncOps
            /\ last'.op = last.op
            /\ last'.args = last.args
            /\ last.result[1] = "Config updated! Added ")
           => /\ last'.result = <<"Config updated! Added ", "0">>
              /\ file' = file
      ]_vars

\* A user sync answered with Alice's name under the ID U9 added nothing and
\* left the entry "al" with the ID U1 it had.
C2_Witness ==
    /\ last.op = "get_user_ids"
    /\ last.args.resp = [outcome |-> Ok, members |-> <<Alice2>>]
    /\ last.result = <<"Config updated! Added ", "0">>
    /\ \E i \in 1..Len(file.users) :
          /\ file.users[i].k = <<"a","l">>
          /\ file.users[i].v.id = U1

Tools == ClientTools \cup {"slack_setup"}

ErrorPrefixes ==
    {"Error: ", "Error during setup: ", "Error creating group conversation: ",
     "Error getting user info: ", "Error: User '", "Error: Channel '",
     "Error: At least one user name must be provided"}

CrossPrefixes ==
    {":cross: Status update failed: ", ":cross: Presence update failed: ",
     ":cross: Invalid presence '"}

\* The string is the not-configured message, opens with an error prefix, or
\* holds a line that opens with the failure mark.
IsErrorString(r) ==
    /\ r # <<>>
    /\ \/ r = NotConfigured
       \/ r[1] \in ErrorPrefixes
       \/ \E i \in 1..Len(r) :
             r[i] \in CrossPrefixes /\ (i = 1 \/ r[i - 1] = "\n")

\* A step of the last call failed: no client, a name not found, a remote call
\* rejected or raised, or the write of the file failed.
SomeStepFailed ==
    \/ last.op \in ClientTools /\ client = None
    \/ /\ last.op = "send_message_to_user"
       /\ client # None
       /\ Unresolved(last.args.user_names) # {}
    \/ /\ last.op = "send_message_to_channel"
       /\ client # None
       /\ Unresolved(last.args.users) # {}
    \/ \E i \in 1..Len(last.calls) : last.calls[i].outcome.kind # "ok"
    \/ last.io = "setup_write_fails"

\* C4: whenever a step of a tool call fails, the string the call returns is
\* an error message.
C4_FailuresAreErrors ==
    (last.op \in Tools /\ SomeStepFailed) => IsErrorString(last.result)

\* C5: the error code of every remote call of a tool call that the platform
\* rejected appears in the string the call returns.
C5_ErrorCodeVerbatim ==
    last.op \in Tools
    => \A i \in 1..Len(last.calls) :
          last.calls[i].outcome.kind = "rejected"
          => last.calls[i].outcome.error \in Range(last.result)

RECURSIVE FlattenGroups(_)
\* The messages of the direct/group section in the order of the report
FlattenGroups(contexts) ==
    IF contexts = <<>> THEN <<>>
    ELSE contexts[1].messages \o FlattenGroups(Tail(contexts))

CountAtLeast(msgs, t) ==
    Cardinality({i \in 1..Len(msgs) : msgs[i].timestamp >= t})

Occurrences(msgs, m) == Cardinality({i \in 1..Len(msgs) : msgs[i] = m})

\* section holds k of the candidates, and for every timestamp it holds as
\* many messages at least that recent as the candidates have, up to k.
MostRecent(section, candidates, k) ==
    /\ Len(section) = k
    /\ \A m \in Range(section) :
          Occurrences(section, m) <= Occurrences(candidates, m)
    /\ \A m \in Range(candidates) :
          CountAtLeast(section, m.timestamp)
          = MinOf(k, CountAtLeast(candidates, m.timestamp))

\* C6 as claimed: the direct/group section holds exactly min(limit, number of
\* candidates) messages, the most recent ones.
C6_CappedAtLimit ==
    (last.op = "get_my_messages" /\ last.report.all_messages # <<>>)
    => MostRecent(FlattenGroups(last.report.contexts),
                  last.report.all_messages,
                  MinOf(last.args.limit, Len(last.report.all_messages)))

\* C6, amended: for a limit >= 0 the direct/group section holds exactly
\* min(limit, 100, number of candidates) messages, the most recent ones.
C6_CappedAtLimitAnd100 ==
    (last.op = "get_my_messages" /\ last.report.all_messages # <<>>
     /\ last.args.limit >= 0)
    => MostRecent(FlattenGroups(last.report.contexts),
                  last.report.all_messages,
                  MinOf(MinOf(last.args.limit, 100),
                        Len(last.report.all_messages)))

\* limit = 5 with 8 candidates: the section holds 5 messages.
C6_Witness ==
    /\ last.op = "get_my_messages"
    /\ last.args.limit = 5
    /\ Len(last.report.all_messages) = 8
    /\ Len(FlattenGroups(last.report.contexts)) = 5

NonIncreasing(msgs) ==
    \A i \in 1..(Len(msgs) - 1) : msgs[i].timestamp >= msgs[i + 1].timestamp

\* C7 as claimed: the messages of the direct/group section, read from first
\* to last across all context groups, are in non-increasing timestamp order.
C7_GloballyDescending ==
    last.op = "get_my_messages"
    => NonIncreasing(FlattenGroups(last.report.contexts))

\* C7, amended: the messages of each context group of the direct/group
\* section are in non-increasing timestamp order, no context has two groups,
\* and the groups are in non-increasing order of their newest message.
C7_DescendingWithinGroups ==
    last.op = "get_my_messages"
    => LET g == last.report.contexts
       IN  /\ \A i \in 1..Len(g) :
                 g[i].messages # <<>> /\ NonIncreasing(g[i].messages)
           /\ \A i, j \in 1..Len(g) :
                 i < j => /\ g[i].context # g[j].context
                          /\ g[i].messages[1].timestamp
                             >= g[j].messages[1].timestamp

\* A report of three context groups whose messages, read across the groups,
\* are not in descending order.
C7_Witness ==
    /\ last.op = "get_my_messages"
    /\ Len(last.report.contexts) = 3
    /\ ~NonIncreasing(FlattenGroups(last.report.contexts))

\* The user IDs the platform's messages come from
SenderIds == {U1, U2, U3, U9, <<"U7">>, <<"U8">>, <<"U0">>}

\* C11: every lookup of a call uses the file as it is at the time of the
\* call.  send_message_to_user on a configured session makes a remote call
\* exactly when every name resolves in the present file, and addresses it to
\* the IDs the present file gives; send_message_to_channel reports the
\* channel as not found exactly when the present file has no such key, and
\* posts to the ID the present file stores; every sender name of the report
\* of get_my_messages is the name the present file gives for a sender ID.
C11_ReloadedBeforeUse ==
    /\ (last.op = "send_message_to_user" /\ client # None
        /\ last.args.user_names # <<>>)
       => LET names == last.args.user_names
              ids == [i \in 1..Len(names) |-> get_slack_user(file, names[i])]
          IN  /\ last.calls # <<>> <=> Unresolved(names) = {}
              /\ (last.calls # <<>> /\ Len(names) = 1)
                 => last.calls[1].args.channel = ids[1]
              /\ (last.calls # <<>> /\ Len(names) > 1)
                 => last.calls[1].args.users = ids
    /\ (last.op = "send_message_to_channel" /\ client # None
        /\ file.exists /\ file.has_channels)
       => LET key == Lower(last.args.channel_name)
          IN  /\ ~HasKey(file.channels, key)
                 <=> last.result = <<"Error: Channel '">> \o key
                                   \o <<"' not found in config">>
              /\ last.calls # <<>>
                 => /\ HasKey(file.channels, key)
                    /\ last.calls[1].args.channel = Lookup(file.channels, key)
                    /\ Unresolved(last.args.users) = {}
    /\ last.op = "get_my_messages"
       => \A i \in 1..Len(last.report.all_messages) :
             \E id \in SenderIds :
                last.report.all_messages[i].sender
                = get_from_user_from_id(id, file)

\* A direct message to "Bo" went to U2, the ID of a users entry that no file
\* held at startup: the entry was written by a setup run after the start.
C11_Witness ==
    /\ last.op = "send_message_to_user"
    /\ last.args.user_names = << <<"B","o">> >>
    /\ file \notin StartFiles
    /\ Len(last.calls) = 1
    /\ last.calls[1].api = "chat_postMessage"
    /\ last.calls[1].args.channel = U2
    /\ \A f \in StartFiles : get_slack_user(f, <<"B","o">>) = None

\* The outcome of the call of the last operation to api, Ok if it made none
OutcomeOf(api) ==
    IF StatusCalls(api) = {} THEN Ok
    ELSE last.calls[Min(StatusCalls(api))].outcome

\* C12: in an update_slack_status call on a configured session, with
\* expiration_minutes above 1440 the profile update carries the expiry
\* now + 1440 * 60, and the remote calls and the result are those of the same
\* call made with 1440; with expiration_minutes from 1 to 1440 the expiry is
\* now + expiration_minutes * 60; with 0 or less no expiry is sent.
C12_ExpirationClamped ==
    (last.op = "update_slack_status" /\ client # None)
    => LET a == last.args
           sent == {last.calls[i].args.profile :
                       i \in StatusCalls("users_profile_set")}
           at1440 == update_slack_status(client, a.status_text,
                                         a.status_emoji, a.presence, 1440, Now,
                                         OutcomeOf("users_profile_set"),
                                         OutcomeOf("users_setPresence"))
       IN  /\ a.expiration_minutes > 1440
              => /\ sent # {}
                 /\ \A profile \in sent :
                       /\ profile.has_expiration
                       /\ profile.status_expiration = Now + 1440 * 60
                 /\ last.calls = at1440.calls
                 /\ last.result = at1440.result
           /\ (a.expiration_minutes > 0 /\ a.expiration_minutes <= 1440)
              => /\ sent # {}
                 /\ \A profile \in sent :
                       /\ profile.has_expiration
                       /\ profile.status_expiration
                          = Now + a.expiration_minutes * 60
           /\ a.expiration_minutes <= 0
              => \A profile \in sent : ~profile.has_expiration

\* A status set with expiration_minutes = 2000 was sent with the expiry
\* now + 86400 and reported as expiring in 24 hours.
C12_Witness ==
    /\ last.op = "update_slack_status"
    /\ last.args.expiration_minutes = 2000
    /\ last.args.status_text = <<"In a meeting">>
    /\ last.args.status_emoji = <<>>
    /\ last.args.presence = <<>>
    /\ Len(last.calls) = 1
    /\ last.calls[1].args.profile.status_expiration = Now + 86400
    /\ last.result
       = <<":check: Status updated: ", "Text: '", "In a meeting", "'",
           " (expires in ", "24", " hours)">>

\* C13: a send_message_to_user call on a configured session whose names all
\* resolve.  With one name it makes exactly one remote call, chat_postMessage
\* to that user's ID.  With more names its first call is the one
\* conversations_open for the resolved IDs; an open that is not accepted is
\* the only call, and the result is an error; after an accepted open the
\* second and last call is the one chat_postMessage, into the channel the
\* open returned, and a post that is not accepted yields an error result with
\* no further call.
C13_OpenThenPost ==
    (last.op = "send_message_to_user" /\ client # None
     /\ last.args.user_names # <<>>
     /\ Unresolved(last.args.user_names) = {})
    => LET names == last.args.user_names
           ids == [i \in 1..Len(names) |-> get_slack_user(file, names[i])]
           calls == last.calls
           opens == StatusCalls("conversations_open")
           posts == StatusCalls("chat_postMessage")
       IN  /\ Cardinality(opens) <= 1
           /\ Cardinality(posts) <= 1
           /\ Len(calls) = Cardinality(opens) + Cardinality(posts)
           /\ Len(names) = 1
              => /\ opens = {}
                 /\ posts = {1}
                 /\ calls[1].args.channel = ids[1]
                 /\ calls[1].args.text = last.args.message
           /\ Len(names) > 1
              => /\ opens = {1}
                 /\ calls[1].args.users = ids
                 /\ calls[1].outcome.kind # "ok"
                    => /\ posts = {}
                       /\ last.result[1] \in ErrorPrefixes
                       /\ last.result[2] = calls[1].outcome.error
                 /\ calls[1].outcome.kind = "rejected"
                    => last.result[1] = "Error creating group conversation: "
                 /\ calls[1].outcome.kind = "ok"
                    => /\ posts = {2}
                       /\ calls[2].args.channel = GroupChannelOf(ids)
                       /\ calls[2].args.text = last.args.message
                       /\ calls[2].outcome.kind # "ok"
                          => last.result = <<"Error: ", calls[2].outcome.error>>
                       /\ calls[2].outcome.kind = "ok"
                          => last.result[1]
                             = "Group message sent successfully to "

\* A message to two recipients: the open was accepted, the post into the
\* opened channel was rejected, and the call ended with the error after
\* these two calls.
C13_Witness ==
    /\ last.op = "send_message_to_user"
    /\ Len(last.args.user_names) = 2
    /\ Len(last.calls) = 2
    /\ last.calls[1].api = "conversations_open"
    /\ last.calls[1].outcome = Ok
    /\ last.calls[2].api = "chat_postMessage"
    /\ last.calls[2].outcome = Rejected("invalid_auth")
    /\ last.result = <<"Error: ", "invalid_auth">>

\* The step is the dump step of the run of process p.
Dumps(p) == runs[p].pc = "read" /\ runs'[p].pc = "done"

\* C14: nothing locks the file between the load and the dump of a sync run.
\* A run that dumps replaces the file by the config it loaded plus its own
\* additions: after a dumping user sync the channels section is the one the
\* run loaded, after a dumping channel sync the users section is the one the
\* run loaded, so entries that another run wrote in between are gone.  A run
\* whose loaded config is still the file's content when it ends (no other
\* run wrote in between, as when runs follow one another) keeps every entry
\* of the file.
C14_UnlockedReadModifyWrite ==
    [][\A p \in Processes :
          Dumps(p)
          => LET run == runs[p]
                 dumped == runs'[p].written # run.current_config
             IN  /\ (dumped /\ run.kind = "users")
                    => /\ file'.channels = run.current_config.channels
                       /\ file'.has_channels = run.current_config.has_channels
                 /\ (dumped /\ run.kind = "channels")
                    => /\ file'.users = run.current_config.users
                       /\ file'.has_users = run.current_config.has_users
                 /\ ~dumped => file' = file
                 /\ run.current_config = file
                    => /\ Kept(file.users, file'.users)
                       /\ Kept(file.channels, file'.channels)
      ]_vars

\* Both processes loaded the file before either dumped it; the user sync of
\* process 1 reported its additions, the channel sync of process 2 dumped
\* last, and the file holds no users entry.
C14_Witness ==
    /\ runs[1].pc = "done"
    /\ runs[1].kind = "users"
    /\ runs[1].written.users # <<>>
    /\ runs[1].result = <<"Config updated! Added ", "2">>
    /\ runs[2].pc = "done"
    /\ runs[2].kind = "channels"
    /\ runs[2].current_config = runs[1].current_config
    /\ runs[2].written.channels # <<>>
    /\ file = runs[2].written
    /\ file.users = <<>>

\* The client handle, if there is one, holds the token the file stores.
HandleFromStoredToken ==
    client # None
    => /\ file.exists
       /\ file.has_token
       /\ file.user_token = client

====
